---- MODULE Spec2Model ----
(***************************************************************************)
(* Model of the Sendbird event-mirroring layer, of the REST handlers of    *)
(* /api/channels that it writes through, and of the users handlers.        *)
(*                                                                         *)
(*   - the relational store: the users, channels and channel_members       *)
(*     tables with their unique indexes (migration.sql);                   *)
(*   - the route handlers POST / PUT / DELETE of /api/channels, one action *)
(*     per database call, so that concurrent requests interleave between   *)
(*     their database calls exactly as awaited Prisma calls do;            *)
(*   - the event tracker: one action per SDK event handler, which runs     *)
(*     the handler up to its awaited fetch, and one action per way the     *)
(*     fetch settles;                                                      *)
(*   - the middleware, a pure function of the request;                     *)
(*   - the messaging view's message counter, which writes through PUT;     *)
(*   - the handlers of /api/auth/signup and of POST / PUT /api/users with  *)
(*     their Sendbird calls, one action per database or Sendbird call.     *)
(*                                                                         *)
(* Of a channel row the model keeps the columns the handlers branch on or  *)
(* the mirror writes: id, sendbirdChannelUrl, name, createdBy, isDeleted,  *)
(* totalMessageCount (not coverUrl, channelType, chatmateId, timestamps).  *)
(***************************************************************************)
EXTENDS Integers, FiniteSets, Sequences, TLC

\* ------------------------------------------------------------------ bounds
MaxReqs == 2
MaxEvents == 2
MaxPathLen == 3

\* ------------------------------------------------------------------ domains
Urls == {"c1", "c2"}
Names == {"a", "b"}
Counts == {1, 2}
Undef == "undefined"
\* No totalMessageCount / messageCount given.
NoCount == 0 - 1

VARIABLES users, channels, members, reqs, applied, events, consoleErrors,
          mwReq, mwRes, doUpdateMessageCount, ureqs, sendbird

vars == <<users, channels, members, reqs, applied, events, consoleErrors,
          mwReq, mwRes, doUpdateMessageCount, ureqs, sendbird>>
client == <<events, consoleErrors, mwReq, mwRes, doUpdateMessageCount>>
store == <<users, channels, members>>
\* The requests to /api/users and /api/auth/signup, and Sendbird's own user
\* directory (the user ids the vendor knows).
usersApi == <<ureqs, sendbird>>

\* ------------------------------------------------------------------ store
\* An email is the sequence of its pieces, "@", "." and " " being pieces of
\* their own: "e1@x.io" is <<"e1", "@", "x", ".", "io">>.
E1 == <<"e1", "@", "x", ".", "io">>
E2 == <<"e2", "@", "x", ".", "io">>
E3 == <<"e3", "@", "x", ".", "io">>
NoEmail == <<>>

\* A row of "users": sendbirdUserId, nickname, isDeleted (migration.sql) and
\* the email the signup stores.
UserRow(sendbirdUserId, nickname, email) ==
    [sendbirdUserId |-> sendbirdUserId, nickname |-> nickname,
     email |-> email, isDeleted |-> FALSE]

\* db.user.findUnique({ where: { sendbirdUserId } }): the rows found.
FindUser(rows, sendbirdUserId) ==
    {u \in rows : u.sendbirdUserId = sendbirdUserId}

\* A row of "channels"; id is the primary key, given by the inserting request.
ChannelRow(id, url, name, createdBy, count) ==
    [id |-> id, url |-> url, name |-> name, createdBy |-> createdBy,
     isDeleted |-> FALSE, totalMessageCount |-> count]

\* A row of "channel_members", isActive defaulting to true.
MemberRow(channelId, user) ==
    [channelId |-> channelId, user |-> user, isActive |-> TRUE]

\* db.channel.findUnique({ where: { sendbirdChannelUrl } }): the rows found.
FindChannel(rows, url) == {c \in rows : c.url = url}

\* The id a handler keeps of the row it read (0 for null); with several rows
\* of one URL the database returns any one of them.
FoundIds(rows, url) ==
    IF FindChannel(rows, url) = {} THEN {0}
    ELSE {c.id : c \in FindChannel(rows, url)}

RowOf(rows, id) == CHOOSE c \in rows : c.id = id

\* CREATE UNIQUE INDEX channels_sendbirdChannelUrl_key: an insert of a second
\* row with the same URL is refused.
UniqueNoIndex(rows, url) == TRUE
UniqueChannelUrl(rows, url) == FindChannel(rows, url) = {}

\* channels_createdBy_fkey: createdBy references users(sendbirdUserId); an
\* insert of a channel row whose creator has no users row is refused.
CreatedByFkey(userRows, createdBy) == FindUser(userRows, createdBy) # {}

\* CREATE UNIQUE INDEX channel_members_channelId_userId_key.
UniqueMember(rows, channelId, user) ==
    \A m \in rows : ~(m.channelId = channelId /\ m.user = user)

\* ------------------------------------------------------------------ requests
\* A request to /api/channels. pc is the handler's position: "sent" until its
\* first database call, then the name of the next database call, "done" once
\* answered (status), "lost" when it never reached the backend. origin is the
\* index of the tracker event that issued it, 0 for a request of the UI.
\* chan is the id of the row the handler read or wrote (0: null), found the
\* members resolved to users. applied lists the PUT requests whose update the
\* database has executed, in the order it executed them.
Invalid == "null"

Request(method, url, name, count, isDeleted, createdBy, mem, origin) ==
    [method |-> method, url |-> url, name |-> name, count |-> count,
     isDeleted |-> isDeleted, createdBy |-> createdBy, members |-> mem,
     origin |-> origin, pc |-> "sent", chan |-> 0, found |-> {}, status |-> 0]

\* The answer ends the handler: its locals are gone.
Answer(r, status) ==
    [r EXCEPT !.pc = "done", !.status = status, !.chan = 0, !.found = {}]

AtServer(i) == i \in DOMAIN reqs /\ reqs[i].pc \notin {"lost", "done"}

\* CreateChannelSchema: sendbirdChannelUrl and createdBy are non-empty
\* strings, name is a string when present.
CreateChannelSchemaOk(r) == r.url # "" /\ r.createdBy # "" /\ r.name # Invalid

\* UpdateChannelSchema: name is a string and totalMessageCount a number
\* when present.
UpdateChannelSchemaOk(r) == r.name # Invalid

\* ------------------------------------------------------------------ POST
\* existingChannel && !existingChannel.isDeleted
AlreadyExistsIgnored(rows, id) == FALSE
AlreadyExists(rows, id) == id # 0 /\ ~RowOf(rows, id).isDeleted

\* POST: validation, then "Check if channel already exists".
PostFindChannel(i) ==
    /\ AtServer(i) /\ reqs[i].method = "POST" /\ reqs[i].pc = "sent"
    /\ \E id \in FoundIds(channels, reqs[i].url) :
         reqs' = [reqs EXCEPT ![i] =
            IF ~CreateChannelSchemaOk(@) THEN Answer(@, 400)
            ELSE IF AlreadyExists(channels, id) THEN Answer(@, 409)
            ELSE [@ EXCEPT !.pc = "findCreator"]]
    /\ UNCHANGED <<store, applied, client, usersApi>>

\* creator = db.user.findUnique({ where: { sendbirdUserId: createdBy } });
\* !creator
CreatorAssumed(rows, createdBy) == FALSE
CreatorMissing(rows, createdBy) == FindUser(rows, createdBy) = {}

\* POST: "Verify creator exists".
PostFindCreator(i) ==
    /\ AtServer(i) /\ reqs[i].method = "POST" /\ reqs[i].pc = "findCreator"
    /\ reqs' = [reqs EXCEPT ![i] =
          IF CreatorMissing(users, reqs[i].createdBy) THEN Answer(@, 404)
          ELSE [@ EXCEPT !.pc = "upsert"]]
    /\ UNCHANGED <<store, applied, client, usersApi>>

\* db.channel.upsert, first half: the lookup by the unique key that decides
\* between the update and the create branch. (A native INSERT .. ON CONFLICT
\* is this step and the next with nothing in between.)
PostUpsert(i) ==
    /\ AtServer(i) /\ reqs[i].method = "POST" /\ reqs[i].pc = "upsert"
    /\ \E id \in FoundIds(channels, reqs[i].url) :
         reqs' = [reqs EXCEPT ![i] = [@ EXCEPT !.pc = "upsertWrite", !.chan = id]]
    /\ UNCHANGED <<store, applied, client, usersApi>>

\* The update branch of the upsert: name (when given) and isDeleted: false.
UpsertUpdate(c, r) ==
    [c EXCEPT !.name = IF r.name = Undef THEN @ ELSE r.name,
              !.isDeleted = FALSE]

\* db.channel.upsert, second half: the write. The create branch inserts a
\* row unless the unique index or the foreign key refuses it (P2002, P2003,
\* answered 500 by the catch).
PostUpsertWrite(i) ==
    /\ AtServer(i) /\ reqs[i].method = "POST" /\ reqs[i].pc = "upsertWrite"
    /\ LET r == reqs[i]
           next == IF r.members # {} THEN "deactivate" ELSE "refetch"
       IN IF r.chan # 0
          THEN /\ channels' = {IF c.url = r.url THEN UpsertUpdate(c, r) ELSE c :
                                 c \in channels}
               /\ reqs' = [reqs EXCEPT ![i] = [@ EXCEPT !.pc = next]]
          ELSE IF UniqueChannelUrl(channels, r.url)
                  /\ CreatedByFkey(users, r.createdBy)
          THEN /\ channels' = channels \cup
                     {ChannelRow(i, r.url, r.name, r.createdBy,
                                 IF r.count = NoCount THEN 0 ELSE r.count)}
               /\ reqs' = [reqs EXCEPT ![i] = [@ EXCEPT !.pc = next, !.chan = i]]
          ELSE /\ channels' = channels
               /\ reqs' = [reqs EXCEPT ![i] = Answer(@, 500)]
    /\ UNCHANGED <<users, members, applied, client, usersApi>>

\* db.channelMember.updateMany({ where: { channelId }, data: { isActive: false } })
DeactivateNone(rows, channelId) == rows
Deactivate(rows, channelId) ==
    {IF m.channelId = channelId THEN [m EXCEPT !.isActive = FALSE] ELSE m :
       m \in rows}

\* POST: "First, remove existing members for this channel".
PostDeactivate(i) ==
    /\ AtServer(i) /\ reqs[i].method = "POST" /\ reqs[i].pc = "deactivate"
    /\ members' = Deactivate(members, reqs[i].chan)
    /\ reqs' = [reqs EXCEPT ![i] = [@ EXCEPT !.pc = "lookup"]]
    /\ UNCHANGED <<users, channels, applied, client, usersApi>>

\* POST: the Promise.all of db.user.findUnique over the listed members and
\* the filter(Boolean) that keeps the users found.
PostLookup(i) ==
    /\ AtServer(i) /\ reqs[i].method = "POST" /\ reqs[i].pc = "lookup"
    /\ LET valid == {u \in reqs[i].members : FindUser(users, u) # {}}
       IN reqs' = [reqs EXCEPT ![i] =
             [@ EXCEPT !.found = valid,
                       !.pc = IF valid # {} THEN "createMany" ELSE "refetch"]]
    /\ UNCHANGED <<store, applied, client, usersApi>>

\* db.channelMember.createMany({ data, skipDuplicates: true }): the rows the
\* unique index (channelId, userId) admits are inserted, the others skipped.
CreateMany(rows, channelId, found) ==
    rows \cup {MemberRow(channelId, u) :
                 u \in {v \in found : UniqueMember(rows, channelId, v)}}

PostCreateMany(i) ==
    /\ AtServer(i) /\ reqs[i].method = "POST" /\ reqs[i].pc = "createMany"
    /\ members' = CreateMany(members, reqs[i].chan, reqs[i].found)
    /\ reqs' = [reqs EXCEPT ![i] = [@ EXCEPT !.pc = "refetch"]]
    /\ UNCHANGED <<users, channels, applied, client, usersApi>>

\* POST: "Fetch the complete channel with relations" and the 201 answer.
PostRefetch(i) ==
    /\ AtServer(i) /\ reqs[i].method = "POST" /\ reqs[i].pc = "refetch"
    /\ reqs' = [reqs EXCEPT ![i] = Answer(@, 201)]
    /\ UNCHANGED <<store, applied, client, usersApi>>

\* ------------------------------------------------------------------ PUT
\* existingChannel = db.channel.findUnique(...); !existingChannel
ChannelMissingIgnored(id) == FALSE
ChannelMissing(id) == id = 0

\* PUT: "Channel URL is required", UpdateChannelSchema.parse, then "Check if
\* channel exists".
PutFind(i) ==
    /\ AtServer(i) /\ reqs[i].method = "PUT" /\ reqs[i].pc = "sent"
    /\ \E id \in FoundIds(channels, reqs[i].url) :
         reqs' = [reqs EXCEPT ![i] =
            IF @.url = "" \/ ~UpdateChannelSchemaOk(@) THEN Answer(@, 400)
            ELSE IF ChannelMissing(id) THEN Answer(@, 404)
            ELSE [@ EXCEPT !.pc = "update", !.chan = id]]
    /\ UNCHANGED <<store, applied, client, usersApi>>

\* The data of db.channel.update in PUT: ...validatedData, every field the
\* body carries overwrites the stored one, whatever the stored one is.
PutDataKeepsMax(c, r) ==
    [c EXCEPT !.name = IF r.name = Undef THEN @ ELSE r.name,
              !.totalMessageCount =
                  IF r.count = NoCount \/ r.count < @ THEN @ ELSE r.count,
              !.isDeleted = IF r.isDeleted = Undef THEN @ ELSE r.isDeleted = "true"]
PutData(c, r) ==
    [c EXCEPT !.name = IF r.name = Undef THEN @ ELSE r.name,
              !.totalMessageCount = IF r.count = NoCount THEN @ ELSE r.count,
              !.isDeleted = IF r.isDeleted = Undef THEN @ ELSE r.isDeleted = "true"]

\* PUT: db.channel.update({ where: { sendbirdChannelUrl }, data }) and the
\* 200 answer; a missing row makes update throw (answered 500).
PutUpdate(i) ==
    /\ AtServer(i) /\ reqs[i].method = "PUT" /\ reqs[i].pc = "update"
    /\ LET r == reqs[i]
       IN IF FindChannel(channels, r.url) = {}
          THEN /\ UNCHANGED <<channels, applied>>
               /\ reqs' = [reqs EXCEPT ![i] = Answer(@, 500)]
          ELSE /\ channels' = {IF c.url = r.url THEN PutData(c, r) ELSE c :
                                 c \in channels}
               /\ applied' = Append(applied, i)
               /\ reqs' = [reqs EXCEPT ![i] = Answer(@, 200)]
    /\ UNCHANGED <<users, members, client, usersApi>>

\* ------------------------------------------------------------------ DELETE
\* DELETE: "Channel URL is required", then "Check if channel exists".
DeleteFind(i) ==
    /\ AtServer(i) /\ reqs[i].method = "DELETE" /\ reqs[i].pc = "sent"
    /\ \E id \in FoundIds(channels, reqs[i].url) :
         reqs' = [reqs EXCEPT ![i] =
            IF @.url = "" THEN Answer(@, 400)
            ELSE IF id = 0 THEN Answer(@, 404)
            ELSE [@ EXCEPT !.pc = "txn", !.chan = id]]
    /\ UNCHANGED <<store, applied, client, usersApi>>

\* The channel half of the transaction: isDeleted: true on the row of the URL.
SoftDelete(rows, url) ==
    {IF c.url = url THEN [c EXCEPT !.isDeleted = TRUE] ELSE c : c \in rows}

\* DELETE: db.$transaction([channel.update, channelMember.updateMany]), both
\* writes committed together, and the 200 answer.
DeleteTxn(i) ==
    /\ AtServer(i) /\ reqs[i].method = "DELETE" /\ reqs[i].pc = "txn"
    /\ LET r == reqs[i]
       IN IF FindChannel(channels, r.url) = {}
          THEN /\ UNCHANGED <<channels, members>>
               /\ reqs' = [reqs EXCEPT ![i] = Answer(@, 500)]
          ELSE /\ channels' = SoftDelete(channels, r.url)
               /\ members' = Deactivate(members, r.chan)
               /\ reqs' = [reqs EXCEPT ![i] = Answer(@, 200)]
    /\ UNCHANGED <<users, applied, client, usersApi>>

\* Any database call of a handler can throw (connection lost, timeout): the
\* handler's catch answers 500 and the writes already made stay.
ServerFail(i) ==
    /\ AtServer(i)
    /\ reqs' = [reqs EXCEPT ![i] = Answer(@, 500)]
    /\ UNCHANGED <<store, applied, client, usersApi>>

\* The users table: "u1" and "u2" exist (signed up with the emails E1 and
\* E2), "u3" does not.
InitUsers == {UserRow("u1", "n1", E1), UserRow("u2", "n2", E2)}

\* ------------------------------------------------------------------ middleware
\* A path is the sequence of its pieces, "/" included: "/api/auth" is
\* <<"/", "api", "/", "auth">>, so that startsWith is the prefix of sequences.
Segs == {"/", "auth", "api", "_next", "static", "image", "favicon.ico", "x"}

RECURSIVE SeqsUpTo(_)
SeqsUpTo(n) ==
    IF n = 0 THEN {<<>>}
    ELSE LET S == SeqsUpTo(n - 1)
         IN S \cup {Append(q, t) : q \in S, t \in Segs}

Paths == {<<"/">> \o q : q \in SeqsUpTo(MaxPathLen)}

StartsWith(path, prefix) ==
    Len(path) >= Len(prefix) /\ SubSeq(path, 1, Len(prefix)) = prefix

SignIn == <<"/", "auth", "/", "signin">>
PassedOn == [kind |-> "next", pathname |-> <<>>, callbackUrl |-> <<>>]

\* config.matcher "/((?!_next/static|_next/image|favicon.ico).*)": the paths
\* the middleware runs on.
matcher(path) ==
    ~ \/ StartsWith(path, <<"/", "_next", "/", "static">>)
      \/ StartsWith(path, <<"/", "_next", "/", "image">>)
      \/ StartsWith(path, <<"/", "favicon.ico">>)

\* middleware(request), token being what getToken returned.
middlewareLoosePrefix(req) ==
    IF StartsWith(req.path, <<"/", "auth">>) THEN PassedOn
    ELSE IF StartsWith(req.path, <<"/", "api", "/", "auth">>) THEN PassedOn
    ELSE IF ~req.token
    THEN [kind |-> "redirect", pathname |-> SignIn, callbackUrl |-> req.path]
    ELSE PassedOn
middleware(req) ==
    IF StartsWith(req.path, <<"/", "auth", "/">>) THEN PassedOn
    ELSE IF StartsWith(req.path, <<"/", "api", "/", "auth">>) THEN PassedOn
    ELSE IF ~req.token
    THEN [kind |-> "redirect", pathname |-> SignIn, callbackUrl |-> req.path]
    ELSE PassedOn

\* What the framework does with a request: the middleware runs on the paths
\* the matcher selects, the others go on to their route without it.
Route(req) == IF matcher(req.path) THEN middleware(req) ELSE PassedOn

NoMw == [path |-> <<>>, token |-> FALSE]
NoRes == [kind |-> "none", pathname |-> <<>>, callbackUrl |-> <<>>]
Pending == [kind |-> "pending", pathname |-> <<>>, callbackUrl |-> <<>>]

\* The middleware answers the request.
MwRespond ==
    /\ mwRes.kind = "pending"
    /\ mwRes' = Route(mwReq)
    /\ UNCHANGED <<store, reqs, applied, events, consoleErrors, mwReq,
                 doUpdateMessageCount, usersApi>>

\* The middleware alone: a request with any path, with or without a token.
InitMw ==
    /\ users = InitUsers
    /\ channels = {}
    /\ members = {}
    /\ reqs = <<>>
    /\ applied = <<>>
    /\ events = <<>>
    /\ consoleErrors = {}
    /\ \E path \in Paths, token \in BOOLEAN :
         mwReq = [path |-> path, token |-> token]
    /\ mwRes = Pending
    /\ doUpdateMessageCount = 0
    /\ ureqs = <<>>
    /\ sendbird = {}

NextMw == MwRespond

SpecMw == InitMw /\ [][NextMw]_vars

\* ------------------------------------------------------------------ clients
MemberLists == {{}, {"u1"}, {"u2", "u3"}}

\* The bodies a client of the REST API sends.
PostBodies ==
    {Request("POST", "c1", "a", NoCount, Undef, "u1", {"u1"}, 0),
     Request("POST", "c1", "b", NoCount, Undef, "u1", {"u2", "u3"}, 0),
     Request("POST", "c2", Undef, 1, Undef, "u2", {}, 0),
     Request("POST", "c1", "a", NoCount, Undef, "u3", {"u1"}, 0),
     Request("POST", "c1", "a", NoCount, Undef, "", {}, 0)}

PutBodies ==
    {Request("PUT", "c1", "b", NoCount, Undef, "", {}, 0),
     Request("PUT", "c1", Undef, 2, "false", "", {}, 0),
     Request("PUT", "c2", Invalid, NoCount, Undef, "", {}, 0),
     Request("PUT", "", "b", NoCount, Undef, "", {}, 0)}

DeleteBodies ==
    {Request("DELETE", u, Undef, NoCount, Undef, "", {}, 0) : u \in {"c1", ""}}

ClientPost ==
    /\ Len(reqs) < MaxReqs
    /\ \E b \in PostBodies : reqs' = Append(reqs, b)
    /\ UNCHANGED <<store, applied, client, usersApi>>

ClientPut ==
    /\ Len(reqs) < MaxReqs
    /\ \E b \in PutBodies : reqs' = Append(reqs, b)
    /\ UNCHANGED <<store, applied, client, usersApi>>

ClientDelete ==
    /\ Len(reqs) < MaxReqs
    /\ \E b \in DeleteBodies : reqs' = Append(reqs, b)
    /\ UNCHANGED <<store, applied, client, usersApi>>

\* The channel open in the messaging view.
selectedChannelUrl == "c1"

\* updateMessageCountInDB(channelUrl): PUT { sendbirdChannelUrl,
\* totalMessageCount: 1 }.
updateMessageCountInDB(channelUrl) ==
    Request("PUT", channelUrl, Undef, 1, Undef, "", {}, 0)

\* The user sends a message: onBeforeSendUserMessage increments
\* doUpdateMessageCount, and the effect on doUpdateMessageCount calls
\* updateMessageCountInDB for the selected channel.
OnBeforeSendUserMessage ==
    /\ Len(reqs) < MaxReqs
    /\ doUpdateMessageCount' = doUpdateMessageCount + 1
    /\ reqs' = Append(reqs, updateMessageCountInDB(selectedChannelUrl))
    /\ UNCHANGED <<store, applied, events, consoleErrors, mwReq, mwRes,
                   usersApi>>

\* The stores a run starts from: the empty one, and the two that one POST
\* (creator and member "u1"), and a DELETE after it, leave behind.
SeedStores ==
    {[channels |-> {}, members |-> {}],
     [channels |-> {ChannelRow(101, "c1", "a", "u1", 0)},
      members |-> {MemberRow(101, "u1")}],
     [channels |-> {[ChannelRow(101, "c1", "a", "u1", 0) EXCEPT !.isDeleted = TRUE]},
      members |-> {[MemberRow(101, "u1") EXCEPT !.isActive = FALSE]}]}

\* The REST API under concurrent requests.
InitApi ==
    /\ users = InitUsers
    /\ \E s \in SeedStores : channels = s.channels /\ members = s.members
    /\ reqs = <<>>
    /\ applied = <<>>
    /\ events = <<>>
    /\ consoleErrors = {}
    /\ mwReq = NoMw
    /\ mwRes = NoRes
    /\ doUpdateMessageCount = 0
    /\ ureqs = <<>>
    /\ sendbird = {}

NextApi ==
    \/ ClientPost
    \/ ClientPut
    \/ ClientDelete
    \/ OnBeforeSendUserMessage
    \/ \E i \in DOMAIN reqs : PostFindChannel(i)
    \/ \E i \in DOMAIN reqs : PostFindCreator(i)
    \/ \E i \in DOMAIN reqs : PostUpsert(i)
    \/ \E i \in DOMAIN reqs : PostUpsertWrite(i)
    \/ \E i \in DOMAIN reqs : PostDeactivate(i)
    \/ \E i \in DOMAIN reqs : PostLookup(i)
    \/ \E i \in DOMAIN reqs : PostCreateMany(i)
    \/ \E i \in DOMAIN reqs : PostRefetch(i)
    \/ \E i \in DOMAIN reqs : PutFind(i)
    \/ \E i \in DOMAIN reqs : PutUpdate(i)
    \/ \E i \in DOMAIN reqs : DeleteFind(i)
    \/ \E i \in DOMAIN reqs : DeleteTxn(i)
    \/ \E i \in DOMAIN reqs : ServerFail(i)

SpecApi == InitApi /\ [][NextApi]_vars

\* ------------------------------------------------------------------ tracker
\* An SDK event as its handler sees it: the channel's url, name and
\* messageCount. pc is the handler's position ("await": at its awaited fetch,
\* "done": finished), req the request it awaits (0: none), fetch how that
\* fetch settled, result how the handler finished.
WriteTypes == {"channel_changed", "channel_deleted", "message_received"}
QuietTypes == {"user_joined", "user_left", "reconnect_started",
               "reconnect_succeeded", "reconnect_failed"}

Event(type, url, name, count) ==
    [type |-> type, url |-> url, name |-> name, messageCount |-> count,
     pc |-> "start", req |-> 0, fetch |-> "none", result |-> "pending"]

\* trackEvent: console.log only, no request.
trackEvent(ev, e) == <<>>

\* updateChannelInDatabase: PUT with the channel's url, name and messageCount.
updateChannelInDatabase(ev, e) ==
    <<Request("PUT", ev.url, ev.name, ev.messageCount, Undef, "", {}, e)>>

\* markChannelAsDeleted: DELETE ?channelUrl=<url>.
markChannelAsDeleted(ev, e) ==
    <<Request("DELETE", ev.url, Undef, NoCount, Undef, "", {}, e)>>

\* updateChannelMessageCount: PUT with the url and the messageCount only.
updateChannelMessageCount(ev, e) ==
    <<Request("PUT", ev.url, Undef, ev.messageCount, Undef, "", {}, e)>>

\* updateChannelMembers: console.log only, no request.
updateChannelMembersWrites(ev, e) ==
    <<Request("PUT", ev.url, Undef, NoCount, Undef, "", {}, e)>>
updateChannelMembers(ev, e) == <<>>

\* handlersMap: the requests the handler of event number e issues, in order.
handleChannelChanged(ev, e) == trackEvent(ev, e) \o updateChannelInDatabase(ev, e)
handleChannelDeleted(ev, e) == trackEvent(ev, e) \o markChannelAsDeleted(ev, e)
handleMessageReceivedTwice(ev, e) ==
    trackEvent(ev, e) \o updateChannelInDatabase(ev, e)
        \o updateChannelMessageCount(ev, e)
handleMessageReceived(ev, e) ==
    trackEvent(ev, e) \o updateChannelMessageCount(ev, e)
handleUserJoined(ev, e) == trackEvent(ev, e) \o updateChannelMembers(ev, e)
handleUserLeft(ev, e) == trackEvent(ev, e) \o updateChannelMembers(ev, e)
handleReconnect(ev, e) == trackEvent(ev, e)

\* The SDK calls a handler: it runs to its awaited fetch (the request is
\* issued, the handler awaits it) or, issuing none, to its end. The SDK does
\* not await the handler, so the next event can arrive at once.
Started(ev, writes) ==
    IF writes = <<>>
    THEN [ev EXCEPT !.pc = "done", !.result = "returned"]
    ELSE [ev EXCEPT !.pc = "await", !.req = Len(reqs) + 1]

\* The channel objects the SDK hands to the handlers.
ChannelStates == {[name |-> "a", messageCount |-> 1],
                  [name |-> "b", messageCount |-> 2]}

OnChannelChanged ==
    /\ Len(events) < MaxEvents
    /\ \E u \in Urls, ch \in ChannelStates :
         LET ev == Event("channel_changed", u, ch.name, ch.messageCount)
             writes == handleChannelChanged(ev, Len(events) + 1)
         IN /\ reqs' = reqs \o writes
            /\ events' = Append(events, Started(ev, writes))
    /\ UNCHANGED <<store, applied, consoleErrors, mwReq, mwRes,
                 doUpdateMessageCount, usersApi>>

OnChannelDeleted ==
    /\ Len(events) < MaxEvents
    /\ \E u \in Urls :
         LET ev == Event("channel_deleted", u, Undef, NoCount)
             writes == handleChannelDeleted(ev, Len(events) + 1)
         IN /\ reqs' = reqs \o writes
            /\ events' = Append(events, Started(ev, writes))
    /\ UNCHANGED <<store, applied, consoleErrors, mwReq, mwRes,
                 doUpdateMessageCount, usersApi>>

OnMessageReceived ==
    /\ Len(events) < MaxEvents
    /\ \E u \in Urls, ch \in ChannelStates :
         LET ev == Event("message_received", u, ch.name, ch.messageCount)
             writes == handleMessageReceived(ev, Len(events) + 1)
         IN /\ reqs' = reqs \o writes
            /\ events' = Append(events, Started(ev, writes))
    /\ UNCHANGED <<store, applied, consoleErrors, mwReq, mwRes,
                 doUpdateMessageCount, usersApi>>

OnUserJoined ==
    /\ Len(events) < MaxEvents
    /\ \E ch \in ChannelStates :
         LET ev == Event("user_joined", "c1", ch.name, ch.messageCount)
             writes == handleUserJoined(ev, Len(events) + 1)
         IN /\ reqs' = reqs \o writes
            /\ events' = Append(events, Started(ev, writes))
    /\ UNCHANGED <<store, applied, consoleErrors, mwReq, mwRes,
                 doUpdateMessageCount, usersApi>>

OnUserLeft ==
    /\ Len(events) < MaxEvents
    /\ \E ch \in ChannelStates :
         LET ev == Event("user_left", "c1", ch.name, ch.messageCount)
             writes == handleUserLeft(ev, Len(events) + 1)
         IN /\ reqs' = reqs \o writes
            /\ events' = Append(events, Started(ev, writes))
    /\ UNCHANGED <<store, applied, consoleErrors, mwReq, mwRes,
                 doUpdateMessageCount, usersApi>>

OnReconnectStarted ==
    /\ Len(events) < MaxEvents
    /\ LET ev == Event("reconnect_started", "", Undef, NoCount)
           writes == handleReconnect(ev, Len(events) + 1)
       IN /\ reqs' = reqs \o writes
          /\ events' = Append(events, Started(ev, writes))
    /\ UNCHANGED <<store, applied, consoleErrors, mwReq, mwRes,
                 doUpdateMessageCount, usersApi>>

OnReconnectSucceeded ==
    /\ Len(events) < MaxEvents
    /\ LET ev == Event("reconnect_succeeded", "", Undef, NoCount)
           writes == handleReconnect(ev, Len(events) + 1)
       IN /\ reqs' = reqs \o writes
          /\ events' = Append(events, Started(ev, writes))
    /\ UNCHANGED <<store, applied, consoleErrors, mwReq, mwRes,
                 doUpdateMessageCount, usersApi>>

OnReconnectFailed ==
    /\ Len(events) < MaxEvents
    /\ LET ev == Event("reconnect_failed", "", Undef, NoCount)
           writes == handleReconnect(ev, Len(events) + 1)
       IN /\ reqs' = reqs \o writes
          /\ events' = Append(events, Started(ev, writes))
    /\ UNCHANGED <<store, applied, consoleErrors, mwReq, mwRes,
                 doUpdateMessageCount, usersApi>>

Awaiting(e) == e \in DOMAIN events /\ events[e].pc = "await"

\* The awaited fetch resolved with a response: the function returns, whatever
\* the status (response.ok is not read), and so does the handler.
AfterResponse(ev, status) ==
    [ev EXCEPT !.pc = "done", !.fetch = "resolved", !.result = "returned"]

\* The awaited fetch rejected: the catch logs and swallows the error, the
\* function returns, and so does the handler.
CatchRethrows(ev) ==
    [ev EXCEPT !.pc = "done", !.fetch = "rejected", !.result = "threw"]
CatchAndLog(ev) ==
    [ev EXCEPT !.pc = "done", !.fetch = "rejected", !.result = "returned"]

\* The backend's answer reaches the tracker.
FetchResolve(e) ==
    /\ Awaiting(e) /\ reqs[events[e].req].pc = "done"
    /\ events' = [events EXCEPT ![e] = AfterResponse(@, reqs[events[e].req].status)]
    /\ UNCHANGED <<store, reqs, applied, consoleErrors, mwReq, mwRes,
                 doUpdateMessageCount, usersApi>>

\* The request never reaches the backend (network error): fetch rejects.
FetchRejectLost(e) ==
    /\ Awaiting(e) /\ reqs[events[e].req].pc = "sent"
    /\ reqs' = [reqs EXCEPT ![events[e].req] = [@ EXCEPT !.pc = "lost"]]
    /\ events' = [events EXCEPT ![e] = CatchAndLog(@)]
    /\ consoleErrors' = consoleErrors \cup {e}
    /\ UNCHANGED <<store, applied, mwReq, mwRes,
                 doUpdateMessageCount, usersApi>>

\* The backend answered but the answer is lost on the way: fetch rejects.
FetchRejectDropped(e) ==
    /\ Awaiting(e) /\ reqs[events[e].req].pc = "done"
    /\ events' = [events EXCEPT ![e] = CatchAndLog(@)]
    /\ consoleErrors' = consoleErrors \cup {e}
    /\ UNCHANGED <<store, reqs, applied, mwReq, mwRes,
                 doUpdateMessageCount, usersApi>>

\* The mirror: the tracker and the backend's side of its requests, from a
\* store in which channel "c1" has been saved and "c2" has not.
Init ==
    /\ users = InitUsers
    /\ channels = {ChannelRow(101, "c1", "a", "u1", 0)}
    /\ members = {MemberRow(101, "u1")}
    /\ reqs = <<>>
    /\ applied = <<>>
    /\ events = <<>>
    /\ consoleErrors = {}
    /\ mwReq = NoMw
    /\ mwRes = NoRes
    /\ doUpdateMessageCount = 0
    /\ ureqs = <<>>
    /\ sendbird = {}

Next ==
    \/ OnChannelChanged
    \/ OnChannelDeleted
    \/ OnMessageReceived
    \/ OnUserJoined
    \/ OnUserLeft
    \/ OnReconnectStarted
    \/ OnReconnectSucceeded
    \/ OnReconnectFailed
    \/ \E e \in DOMAIN events : FetchResolve(e)
    \/ \E e \in DOMAIN events : FetchRejectLost(e)
    \/ \E e \in DOMAIN events : FetchRejectDropped(e)
    \/ \E i \in DOMAIN reqs : PutFind(i)
    \/ \E i \in DOMAIN reqs : PutUpdate(i)
    \/ \E i \in DOMAIN reqs : DeleteFind(i)
    \/ \E i \in DOMAIN reqs : DeleteTxn(i)
    \/ \E i \in DOMAIN reqs : ServerFail(i)

Spec == Init /\ [][Next]_vars

\* ------------------------------------------------------------------ users API
\* emailRegex.test(email), /^[^\s@]+@[^\s@]+\.[^\s@]+$/: one "@", no white
\* space, something before the "@", and after it a "." with something on
\* both sides.
emailRegexTest(email) ==
    \E a \in DOMAIN email, d \in DOMAIN email :
        /\ email[a] = "@" /\ email[d] = "."
        /\ 1 < a /\ a + 1 < d /\ d < Len(email)
        /\ \A k \in DOMAIN email :
              /\ email[k] # " "
              /\ k # a => email[k] # "@"

\* A request to /api/auth/signup (route "signup") or to /api/users (route
\* "POST", "PUT"). pc is the handler's position, status its answer, error
\* what its catch logged, sb the outcomes of its Sendbird calls in order
\* (TRUE: response.ok).
UserRequest(route, sendbirdUserId, nickname, email, password, name) ==
    [route |-> route, sendbirdUserId |-> sendbirdUserId,
     nickname |-> nickname, email |-> email, password |-> password,
     name |-> name, pc |-> "sent", status |-> 0, error |-> "none", sb |-> <<>>]

UAnswer(r, status) == [r EXCEPT !.pc = "done", !.status = status]

\* catch (error): console.error(..., error) and the 500 answer.
UCatch(r, error) == [r EXCEPT !.pc = "done", !.status = 500, !.error = error]

UAtServer(i) == i \in DOMAIN ureqs /\ ureqs[i].pc # "done"

\* db.user.findUnique({ where: { email } }): the rows found.
FindEmail(rows, email) == {u \in rows : u.email = email}

\* The unique index on users.email that findUnique({ where: { email } })
\* relies on: an insert of a second row with the same email is refused.
UniqueEmail(rows, email) == FindEmail(rows, email) = {}

\* CREATE UNIQUE INDEX users_sendbirdUserId_key.
UniqueSendbirdUserId(rows, sendbirdUserId) ==
    FindUser(rows, sendbirdUserId) = {}

\* `user_${nanoid()}`: an id no other request generates.
NanoId(i) == "user_" \o ToString(i)

\* ------------------------------------------------------------------ signup
\* signup: "Validate required fields", "Validate email format", "Validate
\* password strength".
SignupValid(r) ==
    /\ r.email # NoEmail /\ r.password # ""
    /\ emailRegexTest(r.email)
    /\ ~(Len(r.password) < 6)

\* signup: the validations, then "Check if user already exists".
SignupFind(i) ==
    /\ UAtServer(i) /\ ureqs[i].route = "signup" /\ ureqs[i].pc = "sent"
    /\ ureqs' = [ureqs EXCEPT ![i] =
          IF ~SignupValid(@) THEN UAnswer(@, 400)
          ELSE IF FindEmail(users, @.email) # {} THEN UAnswer(@, 409)
          ELSE [@ EXCEPT !.pc = "create"]]
    /\ UNCHANGED <<store, reqs, applied, client, sendbird>>

\* nickname: nickname || name || "User"
SignupNickname(r) ==
    IF r.nickname # "" THEN r.nickname
    ELSE IF r.name # "" THEN r.name ELSE "User"

\* signup: bcrypt.hash, nanoid and db.user.create; the 201 answer, or the
\* catch's 500 when the database refuses the row.
SignupCreate(i) ==
    /\ UAtServer(i) /\ ureqs[i].route = "signup" /\ ureqs[i].pc = "create"
    /\ LET r == ureqs[i]
       IN IF UniqueEmail(users, r.email)
             /\ UniqueSendbirdUserId(users, NanoId(i))
          THEN /\ users' = users \cup
                     {UserRow(NanoId(i), SignupNickname(r), r.email)}
               /\ ureqs' = [ureqs EXCEPT ![i] = UAnswer(@, 201)]
          ELSE /\ users' = users
               /\ ureqs' = [ureqs EXCEPT ![i] = UCatch(@, "P2002")]
    /\ UNCHANGED <<channels, members, reqs, applied, client, sendbird>>

\* ------------------------------------------------------------------ Sendbird
\* SendbirdService.createUser: response.ok when the platform API is reachable
\* (up) and does not know the user id yet; otherwise it throws.
createUserOk(directory, userId, up) == up /\ userId \notin directory

\* SendbirdService.updateUser: response.ok when the platform API is reachable
\* and knows the user id; otherwise it throws.
updateUserOk(directory, userId, up) == up /\ userId \in directory

\* The catch around a Sendbird call: the error is dropped (console.log at
\* most) and the handler goes on with its next step.
SendbirdErrorRethrown(r, next) == UCatch(r, "sendbird")
SendbirdErrorCaught(r, next) == [r EXCEPT !.pc = next, !.sb = Append(@, FALSE)]

SendbirdOk(r, next) == [r EXCEPT !.pc = next, !.sb = Append(@, TRUE)]

\* ------------------------------------------------------------------ POST /api/users
\* CreateUserSchema: sendbirdUserId non-empty, nickname of 2 to 30
\* characters.
CreateUserSchemaOk(r) ==
    /\ r.sendbirdUserId # ""
    /\ r.nickname # Undef /\ Len(r.nickname) >= 2 /\ Len(r.nickname) <= 30

\* UpdateUserSchema: nickname, when present, of 2 to 30 characters.
UpdateUserSchemaOk(r) ==
    r.nickname # Undef => Len(r.nickname) >= 2 /\ Len(r.nickname) <= 30

\* POST /api/users: CreateUserSchema.parse, then "Check if user already
\* exists" (existingUser && !existingUser.isDeleted).
UserPostFind(i) ==
    /\ UAtServer(i) /\ ureqs[i].route = "POST" /\ ureqs[i].pc = "sent"
    /\ ureqs' = [ureqs EXCEPT ![i] =
          IF ~CreateUserSchemaOk(@) THEN UAnswer(@, 400)
          ELSE IF \E u \in FindUser(users, @.sendbirdUserId) : ~u.isDeleted
          THEN UAnswer(@, 409)
          ELSE [@ EXCEPT !.pc = "createUser"]]
    /\ UNCHANGED <<store, reqs, applied, client, sendbird>>

\* POST /api/users: try { await SendbirdService.createUser(...) }, and the
\* catch that goes on to updateUser.
UserPostCreateUser(i) ==
    /\ UAtServer(i) /\ ureqs[i].route = "POST" /\ ureqs[i].pc = "createUser"
    /\ \E up \in BOOLEAN :
         LET r == ureqs[i]
         IN IF createUserOk(sendbird, r.sendbirdUserId, up)
            THEN /\ sendbird' = sendbird \cup {r.sendbirdUserId}
                 /\ ureqs' = [ureqs EXCEPT ![i] = SendbirdOk(@, "upsert")]
            ELSE /\ sendbird' = sendbird
                 /\ ureqs' = [ureqs EXCEPT ![i] =
                                 SendbirdErrorCaught(@, "updateUser")]
    /\ UNCHANGED <<store, reqs, applied, client>>

\* POST /api/users: try { await SendbirdService.updateUser(...) }, and the
\* catch that logs "Sendbird API not available (demo mode)".
UserPostUpdateUser(i) ==
    /\ UAtServer(i) /\ ureqs[i].route = "POST" /\ ureqs[i].pc = "updateUser"
    /\ \E up \in BOOLEAN :
         ureqs' = [ureqs EXCEPT ![i] =
            IF updateUserOk(sendbird, @.sendbirdUserId, up)
            THEN SendbirdOk(@, "upsert")
            ELSE SendbirdErrorCaught(@, "upsert")]
    /\ UNCHANGED <<store, reqs, applied, client, sendbird>>

\* db.user.upsert of POST /api/users: the row of the sendbirdUserId is
\* updated (nickname, isDeleted: false) or, when there is none, created.
UpsertUser(rows, r) ==
    IF FindUser(rows, r.sendbirdUserId) = {}
    THEN rows \cup {UserRow(r.sendbirdUserId, r.nickname, NoEmail)}
    ELSE {IF u.sendbirdUserId = r.sendbirdUserId
          THEN [u EXCEPT !.nickname = r.nickname, !.isDeleted = FALSE]
          ELSE u : u \in rows}

\* POST /api/users: "Create or update user in local database" and the 201
\* answer.
UserPostUpsert(i) ==
    /\ UAtServer(i) /\ ureqs[i].route = "POST" /\ ureqs[i].pc = "upsert"
    /\ users' = UpsertUser(users, ureqs[i])
    /\ ureqs' = [ureqs EXCEPT ![i] = UAnswer(@, 201)]
    /\ UNCHANGED <<channels, members, reqs, applied, client, sendbird>>

\* ------------------------------------------------------------------ PUT /api/users
\* PUT /api/users: "User ID is required", UpdateUserSchema.parse, then "Check
\* if user exists".
UserPutFind(i) ==
    /\ UAtServer(i) /\ ureqs[i].route = "PUT" /\ ureqs[i].pc = "sent"
    /\ ureqs' = [ureqs EXCEPT ![i] =
          IF @.sendbirdUserId = "" \/ ~UpdateUserSchemaOk(@) THEN UAnswer(@, 400)
          ELSE IF FindUser(users, @.sendbirdUserId) = {} THEN UAnswer(@, 404)
          ELSE [@ EXCEPT !.pc = "updateUser"]]
    /\ UNCHANGED <<store, reqs, applied, client, sendbird>>

\* PUT /api/users: try { await SendbirdService.updateUser(...) }, and the
\* catch that logs "Sendbird API not available (demo mode)".
UserPutUpdateUser(i) ==
    /\ UAtServer(i) /\ ureqs[i].route = "PUT" /\ ureqs[i].pc = "updateUser"
    /\ \E up \in BOOLEAN :
         ureqs' = [ureqs EXCEPT ![i] =
            IF updateUserOk(sendbird, @.sendbirdUserId, up)
            THEN SendbirdOk(@, "update")
            ELSE SendbirdErrorCaught(@, "update")]
    /\ UNCHANGED <<store, reqs, applied, client, sendbird>>

\* The data of db.user.update in PUT /api/users: the nickname when given.
UpdateUser(rows, r) ==
    {IF u.sendbirdUserId = r.sendbirdUserId
     THEN [u EXCEPT !.nickname = IF r.nickname = Undef THEN @ ELSE r.nickname]
     ELSE u : u \in rows}

\* PUT /api/users: "Update user in local database" and the 200 answer; a
\* missing row makes update throw (P2025, answered 500).
UserPutUpdate(i) ==
    /\ UAtServer(i) /\ ureqs[i].route = "PUT" /\ ureqs[i].pc = "update"
    /\ IF FindUser(users, ureqs[i].sendbirdUserId) = {}
       THEN /\ users' = users
            /\ ureqs' = [ureqs EXCEPT ![i] = UCatch(@, "P2025")]
       ELSE /\ users' = UpdateUser(users, ureqs[i])
            /\ ureqs' = [ureqs EXCEPT ![i] = UAnswer(@, 200)]
    /\ UNCHANGED <<channels, members, reqs, applied, client, sendbird>>

\* A database call of a handler throws because the database cannot be
\* reached: the handler's catch answers 500 and nothing is written.
UserDbFail(i) ==
    /\ UAtServer(i) /\ ureqs[i].pc \in {"sent", "create", "upsert", "update"}
    /\ ureqs' = [ureqs EXCEPT ![i] = UCatch(@, "unreachable")]
    /\ UNCHANGED <<store, reqs, applied, client, sendbird>>

\* The bodies the clients of /api/auth/signup and /api/users send.
SignupBodies ==
    {UserRequest("signup", "", "", E3, "secret1", ""),
     UserRequest("signup", "", "n1", E1, "secret1", ""),
     UserRequest("signup", "", "", <<"e3", "@", "x">>, "secret1", ""),
     UserRequest("signup", "", "", E3, "abc", "name3")}

UserPostBodies ==
    {UserRequest("POST", "u3", "n3", NoEmail, "", ""),
     UserRequest("POST", "u1", "n9", NoEmail, "", ""),
     UserRequest("POST", "u3", "x", NoEmail, "", "")}

UserPutBodies ==
    {UserRequest("PUT", "u1", "n9", NoEmail, "", ""),
     UserRequest("PUT", "u3", "n9", NoEmail, "", ""),
     UserRequest("PUT", "", Undef, NoEmail, "", "")}

ClientSignup ==
    /\ Len(ureqs) < MaxReqs
    /\ \E b \in SignupBodies : ureqs' = Append(ureqs, b)
    /\ UNCHANGED <<store, reqs, applied, client, sendbird>>

ClientPostUser ==
    /\ Len(ureqs) < MaxReqs
    /\ \E b \in UserPostBodies : ureqs' = Append(ureqs, b)
    /\ UNCHANGED <<store, reqs, applied, client, sendbird>>

ClientPutUser ==
    /\ Len(ureqs) < MaxReqs
    /\ \E b \in UserPutBodies : ureqs' = Append(ureqs, b)
    /\ UNCHANGED <<store, reqs, applied, client, sendbird>>

\* Signup and the users API under concurrent requests: "u1" and "u2" have
\* signed up, Sendbird knows "u1".
InitUsersApi ==
    /\ users = InitUsers
    /\ channels = {}
    /\ members = {}
    /\ reqs = <<>>
    /\ applied = <<>>
    /\ events = <<>>
    /\ consoleErrors = {}
    /\ mwReq = NoMw
    /\ mwRes = NoRes
    /\ doUpdateMessageCount = 0
    /\ ureqs = <<>>
    /\ sendbird = {"u1"}

NextUsersApi ==
    \/ ClientSignup
    \/ ClientPostUser
    \/ ClientPutUser
    \/ \E i \in DOMAIN ureqs : SignupFind(i)
    \/ \E i \in DOMAIN ureqs : SignupCreate(i)
    \/ \E i \in DOMAIN ureqs : UserPostFind(i)
    \/ \E i \in DOMAIN ureqs : UserPostCreateUser(i)
    \/ \E i \in DOMAIN ureqs : UserPostUpdateUser(i)
    \/ \E i \in DOMAIN ureqs : UserPostUpsert(i)
    \/ \E i \in DOMAIN ureqs : UserPutFind(i)
    \/ \E i \in DOMAIN ureqs : UserPutUpdateUser(i)
    \/ \E i \in DOMAIN ureqs : UserPutUpdate(i)
    \/ \E i \in DOMAIN ureqs : UserDbFail(i)

SpecUsersApi == InitUsersApi /\ [][NextUsersApi]_vars

\* ------------------------------------------------------------------ claims
ReqsOf(e) == {i \in DOMAIN reqs : reqs[i].origin = e}

\* A write that did not take effect: never delivered, or refused.
Failed(i) ==
    \/ reqs[i].pc = "lost"
    \/ reqs[i].pc = "done" /\ reqs[i].status >= 400

\* C1: a failure of the mirroring request never leaves the handler: no
\* handler ends by throwing, a handler whose fetch rejected has returned
\* normally, and every event that arrived after it has had its handler run
\* and its request issued.
C1_FetchFailureSwallowed ==
    \A e \in DOMAIN events :
        /\ events[e].result # "threw"
        /\ events[e].pc = "done" => events[e].result = "returned"
        /\ events[e].fetch = "rejected" =>
              /\ events[e].pc = "done"
              /\ \A l \in DOMAIN events :
                    l > e /\ events[l].type \in WriteTypes => ReqsOf(l) # {}

\* C1 witness: the first event's fetch rejected, and the second event, which
\* arrived later, was mirrored into the store.
C1_Witness ==
    /\ Len(events) = 2
    /\ events[1].fetch = "rejected"
    /\ events[2].pc = "done" /\ events[2].fetch = "resolved"
    /\ reqs[events[2].req].status = 200

\* C2: every write of the tracker that did not take effect in the store
\* (rejected request, or an answer with an error status) has an error logged
\* by the tracker once its handler is done.
C2_EveryFailedWriteLogged ==
    \A e \in DOMAIN events :
        (events[e].pc = "done" /\ \E i \in ReqsOf(e) : Failed(i))
            => e \in consoleErrors

\* C3: each channel-changed and message-received event has exactly one
\* request, a PUT for the event's url with the event's messageCount (and name,
\* for channel-changed); each channel-deleted event exactly one, a DELETE for
\* its url; this stays so after the request failed.
C3_OneRequestPerWriteEvent ==
    \A e \in DOMAIN events :
        events[e].type \in WriteTypes =>
            /\ Cardinality(ReqsOf(e)) = 1
            /\ \A i \in ReqsOf(e) :
                 /\ reqs[i].url = events[e].url
                 /\ reqs[i].method =
                       IF events[e].type = "channel_deleted" THEN "DELETE" ELSE "PUT"
                 /\ reqs[i].count =
                       IF events[e].type = "channel_deleted" THEN NoCount
                       ELSE events[e].messageCount
                 /\ reqs[i].name =
                       IF events[e].type = "channel_changed" THEN events[e].name
                       ELSE Undef

\* C3 witness: a message-received event whose request failed, its handler
\* done, and a later event handled after it.
C3_Witness ==
    /\ Len(events) = 2
    /\ events[1].type = "message_received" /\ events[1].pc = "done"
    /\ \E i \in ReqsOf(1) : Failed(i)
    /\ events[2].type = "channel_changed" /\ events[2].pc = "done"

\* C4: the step that handles a user-joined, user-left or reconnect event
\* issues no request and leaves the channel and membership rows unchanged.
C4_QuietEventsWriteNothing ==
    [][(Len(events') = Len(events) + 1
          /\ events'[Len(events')].type \in QuietTypes)
        => UNCHANGED <<channels, members, reqs>>]_vars

\* C4 witness: a user-joined and a reconnect-failed event have been handled
\* and no request exists.
C4_Witness ==
    /\ Len(events) = 2
    /\ events[1].type = "user_joined" /\ events[1].pc = "done"
    /\ events[2].type = "reconnect_failed" /\ events[2].pc = "done"
    /\ reqs = <<>>

\* Every handler is done and every request was answered 200.
Settled ==
    /\ \A e \in DOMAIN events : events[e].pc = "done"
    /\ \A i \in DOMAIN reqs : reqs[i].pc = "done" /\ reqs[i].status = 200

Max(S) == IF S = {} THEN 0 ELSE CHOOSE x \in S : \A y \in S : y <= x

\* The last event of one of the types for the url (0: none).
LastEvent(url, types) ==
    Max({e \in DOMAIN events : events[e].url = url /\ events[e].type \in types})

\* C5: once every write has been answered successfully, the stored
\* totalMessageCount is the messageCount of the last channel-changed or
\* message-received event of the channel, and the stored name the name of its
\* last channel-changed event.
C5_LastEventWins ==
    Settled =>
        \A c \in channels :
            LET ec == LastEvent(c.url, {"channel_changed", "message_received"})
                en == LastEvent(c.url, {"channel_changed"})
            IN /\ ec # 0 => c.totalMessageCount = events[ec].messageCount
               /\ en # 0 => c.name = events[en].name

\* C6: the update of a PUT is unconditional: the step that executes it leaves
\* in the row the messageCount and the name the request carries, whatever was
\* stored before.
C6_WritesAppliedUnconditionally ==
    [][\A i \in DOMAIN reqs :
          (reqs[i].pc = "update" /\ reqs'[i].status = 200) =>
              \A c \in channels' :
                  c.url = reqs[i].url =>
                      /\ reqs[i].count # NoCount =>
                            c.totalMessageCount = reqs[i].count
                      /\ reqs[i].name # Undef => c.name = reqs[i].name]_vars

\* C6 witness: the write of the second event was issued while the first was
\* unanswered and executed before it, and the first event's smaller
\* messageCount, executed last, is the stored one.
C6_Witness ==
    /\ Len(events) = 2
    /\ events[1].url = "c1" /\ events[2].url = "c1"
    /\ events[1].type = "message_received"
    /\ events[2].type = "message_received"
    /\ events[1].messageCount < events[2].messageCount
    /\ applied = <<events[2].req, events[1].req>>
    /\ \A c \in channels :
          c.url = "c1" => c.totalMessageCount = events[1].messageCount

\* C7: the channels table holds at most one row per sendbirdChannelUrl.
C7_OneRowPerUrl ==
    \A c \in channels, d \in channels : c.url = d.url => c = d

\* C7 witness: two POST requests for "c1" were both answered 201 and "c1"
\* has one row.
C7_Witness ==
    /\ Len(reqs) = 2
    /\ \A i \in {1, 2} :
          reqs[i].method = "POST" /\ reqs[i].url = "c1" /\ reqs[i].status = 201
    /\ Cardinality(FindChannel(channels, "c1")) = 1

\* What the claims about the middleware say of an answered request.
TokenlessRule(req, res) ==
    IF StartsWith(req.path, <<"/", "auth", "/">>)
       \/ StartsWith(req.path, <<"/", "api", "/", "auth">>)
    THEN res.kind = "next"
    ELSE /\ res.kind = "redirect"
         /\ res.pathname = <<"/", "auth", "/", "signin">>
         /\ res.callbackUrl = req.path

Answered == mwRes.kind \notin {"none", "pending"}

C9_SoftDeleteAtomic ==
    [][\A i \in DOMAIN reqs :
          reqs[i].method = "DELETE" =>
              /\ (reqs[i].pc = "txn" /\ reqs'[i].status = 200) =>
                    /\ {c.id : c \in channels'} = {c.id : c \in channels}
                    /\ \A c \in channels' :
                          c.url = reqs[i].url =>
                              /\ c.isDeleted
                              /\ \A m \in members' :
                                    m.channelId = c.id => ~m.isActive
                    /\ {<<m.channelId, m.user>> : m \in members'}
                          = {<<m.channelId, m.user>> : m \in members}
              /\ (reqs[i].pc = "sent" /\ reqs'[i].pc = "done"
                    /\ reqs'[i].status # 500 /\ reqs[i].url # ""
                    /\ FindChannel(channels, reqs[i].url) = {}) =>
                    /\ reqs'[i].status = 404
                    /\ UNCHANGED <<channels, members>>]_vars

\* C9 witness: a DELETE of "c1" was answered 200; the row is there, deleted,
\* and its membership, which a POST had created active, is inactive.
C9_Witness ==
    /\ Len(reqs) = 2
    /\ reqs[1].method = "POST" /\ reqs[1].status = 201
    /\ reqs[2].method = "DELETE" /\ reqs[2].status = 200
    /\ channels = {[ChannelRow(1, "c1", "a", "u1", 0) EXCEPT !.isDeleted = TRUE]}
    /\ members = {[MemberRow(1, "u1") EXCEPT !.isActive = FALSE]}

\* C10: the step in which the existence check of a (valid) POST reads a row
\* of its URL that is not soft-deleted answers 409 and changes no channel row
\* and no membership row; being answered, the request does nothing more.
C10_ExistingChannelConflict ==
    [][\A i \in DOMAIN reqs :
          (/\ reqs[i].method = "POST" /\ reqs[i].pc = "sent"
           /\ reqs'[i] # reqs[i] /\ reqs'[i].status # 500
           /\ CreateChannelSchemaOk(reqs[i])
           /\ \E c \in channels : c.url = reqs[i].url /\ ~c.isDeleted) =>
              /\ reqs'[i].pc = "done" /\ reqs'[i].status = 409
              /\ UNCHANGED <<channels, members>>]_vars

\* C10 witness: a POST for the saved channel "c1", with another name and
\* other members, was answered 409 and the store is as it was.
C10_Witness ==
    /\ Len(reqs) = 1
    /\ reqs[1].method = "POST" /\ reqs[1].url = "c1" /\ reqs[1].name = "b"
    /\ reqs[1].members = {"u2", "u3"}
    /\ reqs[1].status = 409
    /\ channels = {ChannelRow(101, "c1", "a", "u1", 0)}
    /\ members = {MemberRow(101, "u1")}

\* C11 as claimed: every POST (with a valid body) whose createdBy matches the
\* sendbirdUserId of no user is answered 404, unless the database failed
\* under it.
C11_UnknownCreatorAlways404 ==
    \A i \in DOMAIN reqs :
        (/\ reqs[i].method = "POST" /\ reqs[i].pc = "done"
         /\ CreateChannelSchemaOk(reqs[i])
         /\ FindUser(users, reqs[i].createdBy) = {}
         /\ reqs[i].status # 500) => reqs[i].status = 404

\* C11 amended: no step of a (valid) POST whose createdBy matches no user
\* changes a channel row or a membership row; its existence check answers
\* 409 when it reads a row of the URL that is not soft-deleted, and its
\* creator check, reached when the URL has no row or a soft-deleted one,
\* answers 404.
C11_UnknownCreatorRejected ==
    [][\A i \in DOMAIN reqs :
          (/\ reqs[i].method = "POST" /\ reqs'[i] # reqs[i]
           /\ CreateChannelSchemaOk(reqs[i])
           /\ FindUser(users, reqs[i].createdBy) = {}) =>
              /\ UNCHANGED <<channels, members>>
              /\ (reqs[i].pc = "sent" /\ reqs'[i].pc = "done"
                    /\ reqs'[i].status # 500) =>
                    /\ reqs'[i].status = 409
                    /\ \E c \in channels : c.url = reqs[i].url /\ ~c.isDeleted
              /\ (reqs[i].pc # "sent" /\ reqs'[i].status # 500) =>
                    reqs'[i].pc = "done" /\ reqs'[i].status = 404]_vars

\* C11 witness: a POST by "u3", who is no user, for the soft-deleted channel
\* "c1" was answered 404; the row is still soft-deleted and its membership
\* inactive.
C11_Witness ==
    /\ Len(reqs) = 1
    /\ reqs[1].method = "POST" /\ reqs[1].url = "c1"
    /\ reqs[1].createdBy = "u3" /\ reqs[1].status = 404
    /\ channels = {[ChannelRow(101, "c1", "a", "u1", 0) EXCEPT !.isDeleted = TRUE]}
    /\ members = {[MemberRow(101, "u1") EXCEPT !.isActive = FALSE]}

\* The primary keys of the channel rows, and the keys of the membership rows.
ChannelIds(rows) == {c.id : c \in rows}
MemberKeys(rows) == {<<m.channelId, m.user>> : m \in rows}

\* C12: the step in which the existence check of a (valid) PUT that reached
\* the backend finds no row of its URL answers 404 and leaves the store unchanged; no step of a PUT
\* adds a channel row or a membership row; and a step after which the
\* channels table holds a row it did not hold is the insert of a POST, for
\* the URL of that POST.
C12_PutNeverCreates ==
    [][/\ \A i \in DOMAIN reqs :
            (reqs[i].method = "PUT" /\ reqs'[i] # reqs[i]) =>
                /\ ChannelIds(channels') = ChannelIds(channels)
                /\ MemberKeys(members') = MemberKeys(members)
                /\ (/\ reqs[i].pc = "sent" /\ reqs[i].url # ""
                     /\ UpdateChannelSchemaOk(reqs[i])
                     /\ reqs'[i].pc # "lost" /\ reqs'[i].status # 500
                     /\ FindChannel(channels, reqs[i].url) = {}) =>
                       /\ reqs'[i].pc = "done" /\ reqs'[i].status = 404
                       /\ UNCHANGED <<users, channels, members>>
       /\ \A c \in channels' :
            c.id \notin ChannelIds(channels) =>
                \E i \in DOMAIN reqs :
                    /\ reqs[i].method = "POST" /\ reqs[i].pc = "upsertWrite"
                    /\ reqs'[i] # reqs[i] /\ reqs[i].url = c.url]_vars

\* C12 witness: on the empty store a PUT for "c1" was answered 404, and the
\* one row of "c1" is the row the POST after it inserted.
C12_Witness ==
    /\ Len(reqs) = 2
    /\ reqs[1].method = "PUT" /\ reqs[1].url = "c1" /\ reqs[1].status = 404
    /\ reqs[2].method = "POST" /\ reqs[2].url = "c1" /\ reqs[2].status = 201
    /\ ChannelIds(channels) = {2}

\* C13: the step that answers a (valid) signup whose email belongs to a user
\* at that moment answers 409 and leaves the users table as it is, unless the
\* database could not be reached.
C13_DuplicateSignupAnswered409 ==
    [][\A i \in DOMAIN ureqs :
          (/\ ureqs[i].route = "signup" /\ SignupValid(ureqs[i])
           /\ ureqs[i].pc # "done" /\ ureqs'[i].pc = "done"
           /\ ureqs'[i].error # "unreachable"
           /\ FindEmail(users, ureqs[i].email) # {}) =>
              ureqs'[i].status = 409 /\ users' = users]_vars

\* The users row of the request's sendbirdUserId carries the nickname the
\* request gave and is not soft-deleted.
Written(rows, r) ==
    \E u \in rows :
        /\ u.sendbirdUserId = r.sendbirdUserId /\ ~u.isDeleted
        /\ r.nickname # Undef => u.nickname = r.nickname

\* C14: in POST and PUT of /api/users a Sendbird call, succeeding or
\* failing, never ends the handler and writes no users row: after createUser
\* POST goes on to the upsert when the call succeeded and to updateUser when
\* it failed, after updateUser POST goes on to the upsert and PUT to the
\* update; and the upsert / update, unless the database fails, writes the
\* users row and answers 201 / 200, whatever the Sendbird calls returned.
C14_UsersApiWorksWithoutVendor ==
    [][\A i \in DOMAIN ureqs :
          (ureqs[i].route \in {"POST", "PUT"} /\ ureqs'[i] # ureqs[i]) =>
              LET r == ureqs[i]
                  q == ureqs'[i]
              IN /\ r.pc \in {"createUser", "updateUser"} =>
                       /\ users' = users
                       /\ Len(q.sb) = Len(r.sb) + 1
                       /\ q.pc =
                             IF r.route = "PUT" THEN "update"
                             ELSE IF r.pc = "updateUser" THEN "upsert"
                             ELSE IF q.sb[Len(q.sb)] THEN "upsert"
                             ELSE "updateUser"
                 /\ (r.pc \in {"upsert", "update"} /\ q.error = "none") =>
                       /\ q.pc = "done"
                       /\ q.status = IF r.route = "POST" THEN 201 ELSE 200
                       /\ Written(users', r)]_vars

\* C14 witness: a POST for the new user "u3" was answered 201 after
\* createUser and updateUser both failed, a PUT for "u1" 200 after updateUser
\* failed, and both rows carry the nicknames of the requests.
C14_Witness ==
    /\ Len(ureqs) = 2
    /\ ureqs[1].route = "POST" /\ ureqs[1].sendbirdUserId = "u3"
    /\ ureqs[1].sb = <<FALSE, FALSE>> /\ ureqs[1].status = 201
    /\ ureqs[2].route = "PUT" /\ ureqs[2].sendbirdUserId = "u1"
    /\ ureqs[2].sb = <<FALSE>> /\ ureqs[2].status = 200
    /\ UserRow("u3", "n3", NoEmail) \in users
    /\ UserRow("u1", "n9", E1) \in users
    /\ sendbird = {"u1"}

\* The users with an active membership row of the channel of the URL.
ActiveMembers(url) ==
    {m.user : m \in {n \in members :
                        /\ n.isActive
                        /\ \E c \in channels : c.url = url /\ c.id = n.channelId}}

\* C15: once a POST with a non-empty members list, the only request there
\* has been, is answered 201, the active members of its channel are exactly
\* the listed members that exist as users.
C15_ActiveMembersAreListed ==
    (/\ Len(reqs) = 1
     /\ reqs[1].method = "POST" /\ reqs[1].members # {}
     /\ reqs[1].pc = "done" /\ reqs[1].status = 201) =>
        ActiveMembers(reqs[1].url) =
            {u \in reqs[1].members : FindUser(users, u) # {}}

\* C16: when the messages sent in the selected channel are the only requests
\* there have been and every one of their PUT requests has been answered
\* 200, the stored totalMessageCount of the channel, 0 in every store a run
\* starts from, is the number of messages sent.
C16_CountGrowsBySends ==
    (/\ doUpdateMessageCount = Len(reqs)
     /\ \A i \in DOMAIN reqs : reqs[i].pc = "done" /\ reqs[i].status = 200) =>
        \A c \in channels :
            (c.url = selectedChannelUrl /\ ~c.isDeleted) =>
                c.totalMessageCount = doUpdateMessageCount

====
